---- MODULE Spec2Model ----
(***************************************************************************)
(* Model of dashboard/dashboard.py: the order-line table is loaded and     *)
(* sorted, a date range is chosen in the sidebar, the table is filtered,   *)
(* the four aggregation helpers are applied to the filtered table and the  *)
(* headline metrics and the best/worst product cuts are derived.           *)
(*                                                                         *)
(* A timestamp is a number of ticks; TicksPerDay ticks make one calendar   *)
(* day, tick 0 of a day being midnight.  Prices are whole numbers (cents). *)
(* Identifiers, labels, timestamps and prices are never null.              *)
(***************************************************************************)
EXTENDS Integers, Sequences, FiniteSets, TLC

VARIABLES all_df, start_date, end_date, main_df, daily_orders_df,
          sum_order_items_df, by_city_df, rfm_df, raised, total_orders,
          total_revenue, top5, bottom5, pc

(* all_df              the loaded table, sorted by purchase time (l. 65-84)  *)
(* start_date,end_date what the sidebar's date_input gave (l. 95-104)       *)
(* main_df             the filtered table (l. 107-108)                      *)
(* daily_orders_df, sum_order_items_df, by_city_df, rfm_df                  *)
(*                     the four derived tables (l. 111-114)                 *)
(* raised              whether create_rfm_df raised (l. 55-56)              *)
(* total_orders, total_revenue   the headline metrics (l. 125, 129)         *)
(* top5, bottom5       the best and worst product cuts (l. 150, 157)        *)
(* pc                  the section of the script that runs next             *)
vars == <<all_df, start_date, end_date, main_df, daily_orders_df,
          sum_order_items_df, by_city_df, rfm_df, raised, total_orders,
          total_revenue, top5, bottom5, pc>>

----------------------------------------------------------------------------
(* Bounds of the model *)

(* rows of a loaded table *)
MaxRows == 2

(* calendar days the purchase timestamps span *)
NumDays == 3

(* rows and category labels of a loaded table of category lines *)
MaxCatRows == 3

NumCats == 3

(* categories of a table with one line per category *)
WideCats == 6

(* times of day: midnight and one later time *)
TimesOfDay == {0, 1}

TicksPerDay == Cardinality(TimesOfDay)

OrderIds == {1, 2}

CustomerIds == {1, 2}

CityNames == {1, 2}

PriceValues == {1, 2}

(* head(5) *)
HeadN == 5

(* the result of max() over an empty column *)
NaN == -1

----------------------------------------------------------------------------
(* Generic helpers *)

Range(s) == {s[i] : i \in 1..Len(s)}

SetMax(S) == CHOOSE x \in S : \A y \in S : y <= x

SetMin(S) == CHOOSE x \in S : \A y \in S : x <= y

RECURSIVE SeqSum(_)
SeqSum(s) == IF s = <<>> THEN 0 ELSE Head(s) + SeqSum(Tail(s))

(* the elements of a finite set of integers, ascending *)
RECURSIVE Ascending(_)
Ascending(S) ==
    IF S = {} THEN <<>> ELSE <<SetMin(S)>> \o Ascending(S \ {SetMin(S)})

Prices(df) == [i \in 1..Len(df) |-> df[i].price]

(* .dt.date / the day bin of a timestamp *)
date(ts) == ts \div TicksPerDay

(* the timestamp a date or timestamp is read as when its str() is compared *)
(* with a datetime column: a date is read as midnight of that day          *)
str_to_timestamp(x) ==
    IF x.kind = "date" THEN x.v * TicksPerDay ELSE x.v

head(s, n) == SubSeq(s, 1, IF Len(s) < n THEN Len(s) ELSE n)

----------------------------------------------------------------------------
(* Aggregation helpers *)

(* variant: "price": "max" instead of "sum" *)
daily_revenue_max(df) ==
    IF df = <<>> THEN <<>>
    ELSE LET days == {date(df[i].order_purchase_timestamp) : i \in 1..Len(df)}
             lo == SetMin(days)
             hi == SetMax(days)
         IN  [k \in 1..(hi - lo + 1) |->
                LET bin == SelectSeq(df, LAMBDA r :
                             date(r.order_purchase_timestamp) = lo + k - 1)
                IN  [order_purchase_timestamp |-> (lo + k - 1) * TicksPerDay,
                     order_count |-> Cardinality({r.order_id : r \in Range(bin)}),
                     revenue |-> IF bin = <<>> THEN 0
                                 ELSE SetMax(Range(Prices(bin)))]]

create_daily_orders_df(df) ==
    IF df = <<>> THEN <<>>
    ELSE LET days == {date(df[i].order_purchase_timestamp) : i \in 1..Len(df)}
             lo == SetMin(days)
             hi == SetMax(days)
         IN  [k \in 1..(hi - lo + 1) |->
                LET bin == SelectSeq(df, LAMBDA r :
                             date(r.order_purchase_timestamp) = lo + k - 1)
                IN  [order_purchase_timestamp |-> (lo + k - 1) * TicksPerDay,
                     order_count |-> Cardinality({r.order_id : r \in Range(bin)}),
                     revenue |-> SeqSum(Prices(bin))]]

(* variant: price.max() instead of price.sum() *)
groupby_price_max(df) ==
    LET labels == Ascending({r.product_category_name_english : r \in Range(df)})
    IN  [k \in 1..Len(labels) |->
           [product_category_name_english |-> labels[k],
            price |-> SetMax(Range(Prices(SelectSeq(df, LAMBDA r :
                        r.product_category_name_english = labels[k]))))]]

(* groupby(label).price.sum(): one entry per label, in ascending label order *)
groupby_price_sum(df) ==
    LET labels == Ascending({r.product_category_name_english : r \in Range(df)})
    IN  [k \in 1..Len(labels) |->
           [product_category_name_english |-> labels[k],
            price |-> SeqSum(Prices(SelectSeq(df, LAMBDA r :
                        r.product_category_name_english = labels[k])))]]

(* sort_values on price with the default kind (quicksort, not stable): every *)
(* arrangement of the entries that is ordered by price is a possible result  *)
RECURSIVE sorted_arrangements(_, _)
sorted_arrangements(S, ascending) ==
    IF S = {} THEN {<<>>}
    ELSE LET first == {x \in S : \A y \in S :
                         IF ascending THEN x.price <= y.price
                                      ELSE x.price >= y.price}
         IN  UNION {{<<x>> \o rest :
                       rest \in sorted_arrangements(S \ {x}, ascending)} :
                    x \in first}

sort_values(s, ascending) == sorted_arrangements(Range(s), ascending)

(* variant: ascending=False left out *)
sum_order_items_ascending(df) == sort_values(groupby_price_sum(df), TRUE)

create_sum_order_items_df(df) == sort_values(groupby_price_sum(df), FALSE)

create_by_city_df(df) ==
    LET cities == Ascending({r.customer_city : r \in Range(df)})
    IN  [k \in 1..Len(cities) |->
           [customer_city |-> cities[k],
            customer_count |-> Cardinality({r.customer_id :
                r \in {q \in Range(df) : q.customer_city = cities[k]}})]]

(* variant: min() instead of max() *)
recent_date_earliest(df) ==
    IF df = <<>> THEN NaN
    ELSE SetMin({date(df[i].order_purchase_timestamp) : i \in 1..Len(df)})

recent_date(df) ==
    IF df = <<>> THEN NaN
    ELSE SetMax({date(df[i].order_purchase_timestamp) : i \in 1..Len(df)})

(* variant: "order_id": "count" instead of "nunique" *)
rfm_groups_row_count(df) ==
    LET ids == Ascending({r.customer_id : r \in Range(df)})
    IN  [k \in 1..Len(ids) |->
           LET g == SelectSeq(df, LAMBDA r : r.customer_id = ids[k])
           IN  [customer_id |-> ids[k],
                max_order_timestamp |->
                    date(SetMax({r.order_purchase_timestamp : r \in Range(g)})),
                frequency |-> Len(g),
                monetary |-> SeqSum(Prices(g))]]

rfm_groups(df) ==
    LET ids == Ascending({r.customer_id : r \in Range(df)})
    IN  [k \in 1..Len(ids) |->
           LET g == SelectSeq(df, LAMBDA r : r.customer_id = ids[k])
           IN  [customer_id |-> ids[k],
                max_order_timestamp |->
                    date(SetMax({r.order_purchase_timestamp : r \in Range(g)})),
                frequency |-> Cardinality({r.order_id : r \in Range(g)}),
                monetary |-> SeqSum(Prices(g))]]

(* variant: the reference date is required to be a date even with no rows *)
rfm_raises_without_reference(df) == recent_date(df) = NaN

(* (recent_date - x).days is evaluated once per customer row; it fails when *)
(* recent_date is not a date                                               *)
rfm_raises(df) == recent_date(df) = NaN /\ rfm_groups(df) # <<>>

create_rfm_df(df) ==
    LET g == rfm_groups(df)
    IN  [k \in 1..Len(g) |->
           [customer_id |-> g[k].customer_id,
            max_order_timestamp |-> g[k].max_order_timestamp,
            frequency |-> g[k].frequency,
            monetary |-> g[k].monetary,
            recency |-> recent_date(df) - g[k].max_order_timestamp]]

----------------------------------------------------------------------------
(* The loaded table *)

min_date == SetMin({all_df[i].order_purchase_timestamp : i \in 1..Len(all_df)})

max_date == SetMax({all_df[i].order_purchase_timestamp : i \in 1..Len(all_df)})

Timestamps == 0..(NumDays * TicksPerDay - 1)

(* tables of 1..n rows over Rows, in chronological order *)
SortedTables(Rows, n) ==
    UNION {{t \in [1..k -> Rows] :
              \A i \in 1..(k - 1) :
                 t[i].order_purchase_timestamp <= t[i + 1].order_purchase_timestamp} :
           k \in 1..n}

Blank ==
    /\ start_date = [kind |-> "none", v |-> 0]
    /\ end_date = [kind |-> "none", v |-> 0]
    /\ main_df = <<>>
    /\ daily_orders_df = <<>>
    /\ sum_order_items_df = <<>>
    /\ by_city_df = <<>>
    /\ rfm_df = <<>>
    /\ raised = FALSE
    /\ total_orders = 0
    /\ total_revenue = 0
    /\ top5 = <<>>
    /\ bottom5 = <<>>
    /\ pc = "sidebar"

(* order lines that differ in order, purchase time, price and city *)
TrendRows ==
    [order_id : OrderIds, customer_id : {1},
     order_purchase_timestamp : Timestamps,
     product_category_name_english : {1}, price : PriceValues,
     customer_city : CityNames]

(* order lines that differ in customer, order, purchase time and price *)
CustomerRows ==
    [order_id : OrderIds, customer_id : CustomerIds,
     order_purchase_timestamp : Timestamps,
     product_category_name_english : {1}, price : PriceValues,
     customer_city : {1}]

(* order lines that differ in category and price *)
CategoryRows ==
    [order_id : {1}, customer_id : {1}, order_purchase_timestamp : {0},
     product_category_name_english : 1..NumCats, price : PriceValues,
     customer_city : {1}]

(* one line per category, labels descending, the k-th line priced k or k+1 *)
WideTables ==
    {[k \in 1..WideCats |->
        [order_id |-> 1, customer_id |-> 1, order_purchase_timestamp |-> 0,
         product_category_name_english |-> WideCats + 1 - k,
         price |-> k + bump[k], customer_city |-> 1]] :
     bump \in [1..WideCats -> {0, 1}]}

InitTrend == all_df \in SortedTables(TrendRows, MaxRows) /\ Blank

InitCustomers == all_df \in SortedTables(CustomerRows, MaxRows) /\ Blank

InitCategories ==
    all_df \in SortedTables(CategoryRows, MaxCatRows) \cup WideTables /\ Blank

----------------------------------------------------------------------------
(* Steps of the script *)

(* st.date_input returns two dates within [min_date, max_date] *)
DateInput ==
    /\ pc = "sidebar"
    /\ \E s, e \in date(min_date)..date(max_date) :
          /\ s <= e
          /\ start_date' = [kind |-> "date", v |-> s]
          /\ end_date' = [kind |-> "date", v |-> e]
    /\ pc' = "filter"
    /\ UNCHANGED <<all_df, main_df, daily_orders_df, sum_order_items_df,
                   by_city_df, rfm_df, raised, total_orders, total_revenue,
                   top5, bottom5>>

(* st.date_input returns fewer than two dates: unpacking fails *)
DateInputFallback ==
    /\ pc = "sidebar"
    /\ start_date' = [kind |-> "timestamp", v |-> min_date]
    /\ end_date' = [kind |-> "timestamp", v |-> max_date]
    /\ pc' = "filter"
    /\ UNCHANGED <<all_df, main_df, daily_orders_df, sum_order_items_df,
                   by_city_df, rfm_df, raised, total_orders, total_revenue,
                   top5, bottom5>>

ApplyFilter ==
    /\ pc = "filter"
    /\ main_df' = SelectSeq(all_df, LAMBDA r :
          /\ r.order_purchase_timestamp >= str_to_timestamp(start_date)
          /\ r.order_purchase_timestamp <= str_to_timestamp(end_date))
    /\ pc' = "prepare"
    /\ UNCHANGED <<all_df, start_date, end_date, daily_orders_df,
                   sum_order_items_df, by_city_df, rfm_df, raised,
                   total_orders, total_revenue, top5, bottom5>>

Prepare ==
    /\ pc = "prepare"
    /\ daily_orders_df' = create_daily_orders_df(main_df)
    /\ sum_order_items_df' \in create_sum_order_items_df(main_df)
    /\ by_city_df' = create_by_city_df(main_df)
    /\ raised' = rfm_raises(main_df)
    /\ rfm_df' = IF rfm_raises(main_df) THEN <<>> ELSE create_rfm_df(main_df)
    /\ pc' = IF rfm_raises(main_df) THEN "error" ELSE "trend"
    /\ UNCHANGED <<all_df, start_date, end_date, main_df, total_orders,
                   total_revenue, top5, bottom5>>

SalesTrend ==
    /\ pc = "trend"
    /\ total_orders' =
          SeqSum([i \in 1..Len(daily_orders_df) |-> daily_orders_df[i].order_count])
    /\ total_revenue' =
          SeqSum([i \in 1..Len(daily_orders_df) |-> daily_orders_df[i].revenue])
    /\ pc' = "products"
    /\ UNCHANGED <<all_df, start_date, end_date, main_df, daily_orders_df,
                   sum_order_items_df, by_city_df, rfm_df, raised, top5, bottom5>>

(* variant: the ascending re-sort left out *)
bottom_cut_unsorted(s) == {head(s, HeadN)}

bottom_cut(s) == {head(a, HeadN) : a \in sort_values(s, TRUE)}

ProductPerformance ==
    /\ pc = "products"
    /\ top5' = head(sum_order_items_df, HeadN)
    /\ bottom5' \in bottom_cut(sum_order_items_df)
    /\ pc' = "done"
    /\ UNCHANGED <<all_df, start_date, end_date, main_df, daily_orders_df,
                   sum_order_items_df, by_city_df, rfm_df, raised,
                   total_orders, total_revenue>>

Next ==
    \/ DateInput
    \/ DateInputFallback
    \/ ApplyFilter
    \/ Prepare
    \/ SalesTrend
    \/ ProductPerformance

Spec == InitTrend /\ [][Next]_vars

SpecCustomers == InitCustomers /\ [][Next]_vars

SpecCategories == InitCategories /\ [][Next]_vars

----------------------------------------------------------------------------
(* Properties *)

Filtered == pc \notin {"sidebar", "filter"}

Prepared == pc \in {"trend", "products", "done"}

Measured == pc \in {"products", "done"}

DayOf(r) == date(r.order_purchase_timestamp)

InputDays == {DayOf(main_df[i]) : i \in 1..Len(main_df)}

OutputDay(k) == date(daily_orders_df[k].order_purchase_timestamp)

LinesOfCustomer(c) == {i \in 1..Len(main_df) : main_df[i].customer_id = c}

LinesOfCategory(c) ==
    {i \in 1..Len(main_df) : main_df[i].product_category_name_english = c}

RECURSIVE PriceOver(_)
PriceOver(I) ==
    IF I = {} THEN 0
    ELSE LET i == CHOOSE j \in I : TRUE
         IN  main_df[i].price + PriceOver(I \ {i})

TotalPrice == PriceOver(1..Len(main_df))

(* the calendar day a selected bound lies on *)
SelectedDay(x) == IF x.kind = "date" THEN x.v ELSE date(x.v)

(* C1: the Total Orders metric, the sum of order_count over the daily rows, *)
(* equals the number of distinct order_id values of the filtered table,     *)
(* also when the lines of one order fall on different calendar days.        *)
TotalOrdersIsDistinctOrders ==
    Measured => total_orders =
                Cardinality({main_df[i].order_id : i \in 1..Len(main_df)})

(* C2: the daily table has exactly one row per calendar day                *)
(* that has an input row, in ascending date order, and no row for a day    *)
(* without input rows.                                                      *)
DailyRowsOnlyForDaysWithInput ==
    Prepared =>
        /\ Len(daily_orders_df) = Cardinality(InputDays)
        /\ \A k \in 1..Len(daily_orders_df) : OutputDay(k) \in InputDays
        /\ \A k \in 1..(Len(daily_orders_df) - 1) : OutputDay(k) < OutputDay(k + 1)

(* C3: the date range filter keeps exactly the rows whose purchase day d   *)
(* satisfies start_date <= d <= end_date, whatever their time of day.      *)
FilterInclusiveByDay ==
    Filtered =>
        main_df = SelectSeq(all_df, LAMBDA r :
                     /\ SelectedDay(start_date) <= DayOf(r)
                     /\ DayOf(r) <= SelectedDay(end_date))

(* C4: every customer's recency is the number of days from that customer's *)
(* latest purchase day to the latest purchase day of the whole input, so   *)
(* it is never negative, and it is 0 for some customer of a non-empty      *)
(* input.                                                                   *)
RecencyFromLatestDayOfInput ==
    Prepared =>
        /\ \A k \in 1..Len(rfm_df) :
              /\ rfm_df[k].recency =
                    SetMax(InputDays)
                    - SetMax({DayOf(main_df[i]) :
                                i \in LinesOfCustomer(rfm_df[k].customer_id)})
              /\ rfm_df[k].recency >= 0
        /\ main_df # <<>> => \E k \in 1..Len(rfm_df) : rfm_df[k].recency = 0

(* C4 witness: two customers, one of them last seen before the latest day *)
EarlierCustomerHasRecency ==
    /\ Prepared
    /\ Len(rfm_df) = 2
    /\ \E k \in 1..2 : rfm_df[k].recency > 0

(* C5: the RFM table has exactly one row per distinct customer_id of the   *)
(* input; frequency is the number of distinct order_id values among the    *)
(* customer's rows and monetary the sum of price over them.                *)
RfmRowPerCustomer ==
    Prepared =>
        /\ {rfm_df[k].customer_id : k \in 1..Len(rfm_df)} =
              {main_df[i].customer_id : i \in 1..Len(main_df)}
        /\ \A k, l \in 1..Len(rfm_df) :
              rfm_df[k].customer_id = rfm_df[l].customer_id => k = l
        /\ \A k \in 1..Len(rfm_df) :
              /\ rfm_df[k].frequency =
                    Cardinality({main_df[i].order_id :
                                   i \in LinesOfCustomer(rfm_df[k].customer_id)})
              /\ rfm_df[k].monetary =
                    PriceOver(LinesOfCustomer(rfm_df[k].customer_id))

(* C5 witness: a customer whose one order has two lines *)
TwoLineOrderCountedOnce ==
    /\ Prepared
    /\ \E k \in 1..Len(rfm_df) :
          /\ rfm_df[k].frequency = 1
          /\ Cardinality(LinesOfCustomer(rfm_df[k].customer_id)) = 2

(* C6: when the date range selects no row, none of the four helpers raises *)
(* and each returns an empty table.                                        *)
EmptySelectionIsSafe ==
    (pc \notin {"sidebar", "filter", "prepare"} /\ main_df = <<>>) =>
        /\ ~raised
        /\ pc # "error"
        /\ daily_orders_df = <<>>
        /\ sum_order_items_df = <<>>
        /\ by_city_df = <<>>
        /\ rfm_df = <<>>

(* C6 witness: a chosen range of days that keeps no row of the table *)
EmptySelectionPrepared ==
    /\ pc = "trend"
    /\ start_date.kind = "date"
    /\ all_df # <<>>
    /\ main_df = <<>>

(* C7: the category table has exactly one row per category of the input,   *)
(* every input row's category is in exactly one of its rows, and its       *)
(* revenues add up to the sum of price over all input rows.                *)
CategoryPartition ==
    Prepared =>
        /\ {sum_order_items_df[k].product_category_name_english :
              k \in 1..Len(sum_order_items_df)} =
           {main_df[i].product_category_name_english : i \in 1..Len(main_df)}
        /\ \A k, l \in 1..Len(sum_order_items_df) :
              sum_order_items_df[k].product_category_name_english =
                 sum_order_items_df[l].product_category_name_english => k = l
        /\ SeqSum(Prices(sum_order_items_df)) = TotalPrice

(* C7 witness: several categories, one of them with more than one line *)
SeveralCategoriesSummed ==
    /\ Prepared
    /\ Len(sum_order_items_df) >= 2
    /\ Len(main_df) > Len(sum_order_items_df)

(* C8: the Total Revenue metric, the sum of revenue over the daily rows,   *)
(* equals the sum of price over all rows of the filtered table.            *)
RevenueConserved == Measured => total_revenue = TotalPrice

(* C8 witness: two lines bought on the same day *)
TwoLinesOneDayMeasured ==
    /\ Measured
    /\ Len(main_df) = 2
    /\ Len(daily_orders_df) = 1

FirstLineOf(c) == SetMin(LinesOfCategory(c))

RevenueDescending ==
    \A k \in 1..(Len(sum_order_items_df) - 1) :
        sum_order_items_df[k].price >= sum_order_items_df[k + 1].price

(* C9, as claimed: the category table is sorted by revenue descending and  *)
(* categories of equal revenue keep the order in which their first rows    *)
(* occur in the input.                                                      *)
TiesInEncounterOrder ==
    Prepared =>
        /\ RevenueDescending
        /\ \A k \in 1..(Len(sum_order_items_df) - 1) :
              sum_order_items_df[k].price = sum_order_items_df[k + 1].price =>
                 FirstLineOf(sum_order_items_df[k].product_category_name_english)
                 < FirstLineOf(sum_order_items_df[k + 1].product_category_name_english)

(* C9, amended: the category table is sorted by revenue descending; the    *)
(* order of categories of equal revenue is not their encounter order.      *)
SortedByRevenueDescending == Prepared => RevenueDescending

(* C9 witness: the category of larger revenue has the larger label and     *)
(* occurs later in the input, and comes first                              *)
LargerRevenueFirst ==
    /\ Prepared
    /\ Len(sum_order_items_df) >= 2
    /\ sum_order_items_df[1].price > sum_order_items_df[2].price
    /\ sum_order_items_df[1].product_category_name_english >
          sum_order_items_df[2].product_category_name_english
    /\ FirstLineOf(sum_order_items_df[1].product_category_name_english) >
          FirstLineOf(sum_order_items_df[2].product_category_name_english)

(* the last HeadN entries of the category table, last one first *)
LastReversed ==
    LET n == Len(sum_order_items_df)
        m == IF n < HeadN THEN n ELSE HeadN
    IN  [k \in 1..m |-> sum_order_items_df[n + 1 - k]]

DistinctRevenues ==
    \A k, l \in 1..Len(sum_order_items_df) :
        sum_order_items_df[k].price = sum_order_items_df[l].price => k = l

(* C10, as claimed: the worst-performers cut, the first 5 of the category  *)
(* table re-sorted ascending, is the last 5 of the descending table        *)
(* reversed, for every input, ties included.                                *)
BottomCutIsReversedTail == pc = "done" => bottom5 = LastReversed

(* C10, amended: the worst-performers cut is the last 5 of the descending  *)
(* table reversed whenever no two categories have equal total revenue.     *)
BottomCutIsReversedTailWithoutTies ==
    (pc = "done" /\ DistinctRevenues) => bottom5 = LastReversed

(* C10 witness: more than 5 categories, all of different revenue *)
ManyDistinctCategoriesCut ==
    /\ pc = "done"
    /\ DistinctRevenues
    /\ Len(sum_order_items_df) > HeadN
    /\ Len(bottom5) = HeadN

====
